---- MODULE Spec2Model ----
(***************************************************************************)
(* Lung-cancer classification service: the REST application (app.py,       *)
(* wsgi.py) and the dashboard (app_streamlit.py).                          *)
(*                                                                         *)
(* Probabilities are integers in units of 1e-5 (100000 = 1.0); percentages *)
(* rounded to two decimals are integers in units of 0.01 % (7000 = 70.00). *)
(* A tensor is its shape together with the least and greatest sample       *)
(* before the division by 255, and the divisor applied.                    *)
(***************************************************************************)
EXTENDS Integers, Sequences, FiniteSets, TLC

VARIABLES
    artifact,      \* the model file on disk and what loading it does
    pc,            \* REST process: "boot", "serving", "exited"
    entry,         \* how the REST process was started: "none", "main", "wsgi"
    model,         \* app.py global `model`: None (0) or an instance identity
    nextId,        \* identity the next deserialized instance gets
    compiled,      \* instances whose compile() completed
    deserCount,    \* completed keras load_model calls
    attemptCount,  \* keras load_model calls, failed ones included
    compileCount,  \* model.compile calls
    loadReturns,   \* what each load_model_once call returned, in order
    loadTrace,     \* the mode of each keras load_model call made, in order
    req,           \* the request last received
    resp,          \* the response to it (NoResp while it is in flight)
    steps,         \* the handler steps the last request went through
    tensor,        \* the tensor last handed to model.predict
    predictions,   \* the vector model.predict last returned
    cache,         \* dashboard: st.cache_resource entry of load_model
    ss,            \* dashboard: st.session_state
    upload,        \* dashboard: the file in the uploader
    screen,        \* dashboard: what the last run of main() rendered
    dtensor,       \* dashboard: the tensor last handed to model.predict
    dpredictions,  \* dashboard: the vector model.predict last returned
    tpc,           \* per thread: where it is inside load_model_once
    tret,          \* per thread: what load_model_once returned to it
    rstate,        \* step by step: the state of the request being handled
    rtrail,        \* step by step: the states that request went through
    rimg,          \* step by step: `img` of predict()
    rbuilt,        \* step by step: the `response` dict of predict()
    inferCalls     \* step by step: model.predict calls made for the request

rvars == <<artifact, pc, entry, model, nextId, compiled, deserCount,
           attemptCount, compileCount, loadReturns, loadTrace, req, resp,
           steps, tensor, predictions>>

dvars == <<cache, ss, upload, screen, dtensor, dpredictions>>

tvars == <<tpc, tret>>

qvars == <<rstate, rtrail, rimg, rbuilt, inferCalls>>

xvars == <<tvars, qvars>>

vars == <<rvars, dvars, xvars>>

----------------------------------------------------------------------------
\* Bounds of the model

MaxOutLen == 4
MaxCalls == 3
MaxAnalyses == 2
NumThreads == 2

----------------------------------------------------------------------------
\* Configuration (app.py 21-23)

None == 0
IMG_SIZE == <<150, 150>>
CLASS_NAMES == <<"Adenocarcinoma", "Normal", "Squamous Cell Carcinoma">>
NumClasses == Len(CLASS_NAMES)
ModelInputShape == <<1, IMG_SIZE[2], IMG_SIZE[1], 3>>

\* The artifact: absent, or present with the outcome of each loading step
\* and the width of the output layer.  safeOK: load_model called with
\* safe_mode=False returns an instance; plainOK: load_model called without
\* safe_mode does.
Artifacts ==
    {[exists |-> FALSE, safeOK |-> FALSE, plainOK |-> FALSE,
      compileOK |-> FALSE, outLen |-> NumClasses]}
    \cup [exists : {TRUE}, safeOK : BOOLEAN, plainOK : BOOLEAN,
          compileOK : BOOLEAN, outLen : 1..MaxOutLen]

----------------------------------------------------------------------------
\* Uploaded images as PIL decodes them

Modes == {"RGB", "RGBA", "L", "P", "LA", "CMYK"}
Widths == {64, 800}
Heights == {1, 600}
PngModes == {"RGB", "RGBA", "L", "P", "LA"}
JpegModes == {"RGB", "L", "CMYK"}

\* Bands of a mode as numpy sees them: 0 stands for "no channel axis".
Bands(mode) ==
    CASE mode = "RGB" -> 3
      [] mode = "RGBA" -> 4
      [] mode = "CMYK" -> 4
      [] mode = "LA" -> 2
      [] OTHER -> 0

Images ==
    {im \in [ok : {TRUE}, mode : Modes, w : Widths, h : Heights,
             format : {"PNG", "JPEG"}, lo : {0}, hi : {255}] :
        \/ im.format = "PNG" /\ im.mode \in PngModes
        \/ im.format = "JPEG" /\ im.mode \in JpegModes}

\* Bytes PIL cannot identify (corrupt, unsupported, or empty content).
Corrupt == [ok |-> FALSE, mode |-> "", w |-> 0, h |-> 0,
            format |-> "None", lo |-> 0, hi |-> 0]

NoReq == [route |-> "none", hasFile |-> FALSE, filename |-> "", body |-> Corrupt]

\* POST /api/predict requests: without a file field, or with one (whose
\* filename may be empty); and GET /api/health.
PredictRequests ==
    {[route |-> "predict", hasFile |-> FALSE, filename |-> "", body |-> Corrupt]}
    \cup [route : {"predict"}, hasFile : {TRUE}, filename : {"", "scan.png"},
          body : Images \cup {Corrupt}]

HealthRequest == [route |-> "health", hasFile |-> FALSE, filename |-> "", body |-> Corrupt]

Requests == PredictRequests \cup {HealthRequest}

\* Image.convert: a new image in the target mode; a converted image carries
\* no format.
Convert(img, mode) == [img EXCEPT !.mode = mode, !.format = "None"]

\* Image.resize: a new image of the given size, same mode, no format.
Resize(img, size) == [img EXCEPT !.w = size[1], !.h = size[2], !.format = "None"]

\* np.array(img, dtype=float32): (height, width[, bands]).
ArrayShape(img) ==
    IF Bands(img.mode) = 0 THEN <<img.h, img.w>>
    ELSE <<img.h, img.w, Bands(img.mode)>>

NoTensor == [shape |-> <<>>, lo |-> 0, hi |-> 0, div |-> 1]

\* np.expand_dims(axis=0) followed by the division by 255.0.
ToTensor(img) ==
    [shape |-> <<1>> \o ArrayShape(img), lo |-> img.lo, hi |-> img.hi, div |-> 255]

----------------------------------------------------------------------------
\* ModelHandle: load_model_once (app.py 62-114)

\* app.py 66: `if model is not None: return model`.
AlreadyLoaded(m) == m # None

\* A load_model call that passes safe_mode=False deserializes without
\* restriction ("unrestricted"); one that does not pass safe_mode runs in
\* keras' default mode ("default"), which is the restricted, safe mode in
\* every keras that has one.
Deserialize_RestrictedFirst(art) ==
    IF art.plainOK THEN [ok |-> TRUE, attempts |-> 1, trace |-> <<"default">>]
    ELSE IF art.safeOK
    THEN [ok |-> TRUE, attempts |-> 2, trace |-> <<"default", "unrestricted">>]
    ELSE [ok |-> FALSE, attempts |-> 2, trace |-> <<"default", "unrestricted">>]

\* app.py 86-93: load_model(..., safe_mode=False) first, and on any
\* exception load_model(...) without safe_mode.  The result tells whether an
\* instance came out, how many load_model calls were made and in which mode.
Deserialize(art) ==
    IF art.safeOK THEN [ok |-> TRUE, attempts |-> 1, trace |-> <<"unrestricted">>]
    ELSE IF art.plainOK
    THEN [ok |-> TRUE, attempts |-> 2, trace |-> <<"unrestricted", "default">>]
    ELSE [ok |-> FALSE, attempts |-> 2, trace |-> <<"unrestricted", "default">>]

\* The whole of load_model_once on global `m`, with `nid` the identity a
\* newly deserialized instance gets.  `model` is the global afterwards, `ret`
\* the value returned.  The global is assigned by the deserialization
\* (line 88 or 92), before compile (line 101) runs.
LoadModelOnce(m, art, nid) ==
    IF AlreadyLoaded(m)
    THEN [model |-> m, ret |-> m, deser |-> 0, attempts |-> 0, compiles |-> 0,
          done |-> {}, trace |-> <<>>]
    ELSE IF ~art.exists
    THEN [model |-> m, ret |-> None, deser |-> 0, attempts |-> 0,
          compiles |-> 0, done |-> {}, trace |-> <<>>]
    ELSE LET d == Deserialize(art) IN
         IF ~d.ok
         THEN [model |-> m, ret |-> None, deser |-> 0, attempts |-> d.attempts,
               compiles |-> 0, done |-> {}, trace |-> d.trace]
         ELSE IF art.compileOK
         THEN [model |-> nid, ret |-> nid, deser |-> 1, attempts |-> d.attempts,
               compiles |-> 1, done |-> {nid}, trace |-> d.trace]
         ELSE [model |-> nid, ret |-> None, deser |-> 1, attempts |-> d.attempts,
               compiles |-> 1, done |-> {}, trace |-> d.trace]

----------------------------------------------------------------------------
\* ResultFormatter (app.py 187-206, app_streamlit.py 201-210)

ProbVals == {0, 50000, 70006}

\* The vectors a model with output width n can return.
Outputs(n) == [1..n -> ProbVals]

RECURSIVE ArgMaxFrom_Last(_, _, _)
ArgMaxFrom_Last(v, i, best) ==
    IF i > Len(v) THEN best
    ELSE ArgMaxFrom_Last(v, i + 1, IF v[i] >= v[best] THEN i ELSE best)

\* np.argmax: the first index holding the greatest value.
RECURSIVE ArgMaxFrom(_, _, _)
ArgMaxFrom(v, i, best) ==
    IF i > Len(v) THEN best
    ELSE ArgMaxFrom(v, i + 1, IF v[i] > v[best] THEN i ELSE best)

ArgMax(v) == ArgMaxFrom(v, 2, 1)

\* p * 100: a probability in units of 1e-5 as a percentage in units of
\* 1e-5 %.
Percent(p) == p * 100

\* round(x, 2) of a percentage x in units of 1e-5 %, in units of 0.01 %:
\* round half to even.
Round2(x) ==
    LET q == x \div 1000
        r == x % 1000
    IN IF r < 500 THEN q
       ELSE IF r > 500 THEN q + 1
       ELSE IF q % 2 = 0 THEN q ELSE q + 1

\* app.py 193-196 and 206: one entry per class name, each rounded on its own.
Probabilities(v) == [i \in 1..NumClasses |-> Round2(Percent(v[i]))]

----------------------------------------------------------------------------
\* Responses

NoResp == [status |-> 0, success |-> FALSE, error |-> "", model_loaded |-> FALSE,
           predicted_class |-> "", confidence |-> 0, probabilities |-> <<>>,
           original_width |-> 0, original_height |-> 0, format |-> ""]

Failure(status, error) == [NoResp EXCEPT !.status = status, !.error = error]

\* app.py 221-226: any exception in the handler becomes a 500 carrying str(e).
ExceptionResponse_400(e) == Failure(400, e)

ExceptionResponse(e) == Failure(500, e)

Success(label, conf, probs, w, h, fmt) ==
    [NoResp EXCEPT !.status = 200, !.success = TRUE, !.predicted_class = label,
                   !.confidence = conf, !.probabilities = probs,
                   !.original_width = w, !.original_height = h, !.format = fmt]

Outcome(r, st, t, p) == [resp |-> r, steps |-> st, tensor |-> t, predictions |-> p]

\* app.py 163-165: only mode RGBA is converted.
Flatten(img) == IF img.mode = "RGBA" THEN Convert(img, "RGB") ELSE img

\* model.predict (app.py 184): raises unless the tensor has the model's input
\* shape and the forward pass goes through.
InferenceRaises(t, inferOK) == t.shape # ModelInputShape \/ ~inferOK

OriginalSize_Resized(img) ==
    LET r == Resize(img, IMG_SIZE) IN <<r.w, r.h>>

\* app.py 168: `original_width, original_height = img.size`, read before
\* the resize.
OriginalSize(img) == <<img.w, img.h>>

\* app.py 212: `img.format if img.format else 'Unknown'`.
FormatName(img) == IF img.format # "None" THEN img.format ELSE "Unknown"

\* app.py 188-215 on the vector `out`, for the image `img` as it is after the
\* RGBA conversion.  CLASS_NAMES[idx] raises for an index past the list and
\* predictions[0][i] raises for a vector shorter than CLASS_NAMES.
FormatResult(out, img, t) ==
    LET idx == ArgMax(out) IN
    IF idx > NumClasses
    THEN Outcome(ExceptionResponse("list index out of range"),
                 <<"guard", "validate", "decode", "infer", "format">>, t, out)
    ELSE IF Len(out) < NumClasses
    THEN Outcome(ExceptionResponse("index out of bounds"),
                 <<"guard", "validate", "decode", "infer", "format">>, t, out)
    ELSE Outcome(Success(CLASS_NAMES[idx], Round2(Percent(out[idx])), Probabilities(out),
                         OriginalSize(img)[1], OriginalSize(img)[2],
                         FormatName(img)),
                 <<"guard", "validate", "decode", "infer", "format">>, t, out)

\* app.py 138: `if model is None`.
ModelUnloaded_Dropped(m) == FALSE

ModelUnloaded(m) == m = None

\* app.py 145: `if 'file' not in request.files`.
FileMissing_Dropped(rq) == FALSE

FileMissing(rq) == ~rq.hasFile

\* app.py 153: `if file.filename == ''`.
NoFileSelected(rq) == rq.filename = ""

\* The whole of predict() (app.py 133-226) for request rq, with `out` the
\* vector the model returns if the forward pass goes through (inferOK).
PredictHandler(m, rq, out, inferOK) ==
    IF ModelUnloaded(m)
    THEN Outcome(Failure(500, "Model not loaded"), <<"guard">>, NoTensor, <<>>)
    ELSE IF FileMissing(rq)
    THEN Outcome(Failure(400, "No file uploaded"), <<"guard", "validate">>,
                 NoTensor, <<>>)
    ELSE IF NoFileSelected(rq)
    THEN Outcome(Failure(400, "No file selected"), <<"guard", "validate">>,
                 NoTensor, <<>>)
    ELSE IF ~rq.body.ok
    THEN Outcome(ExceptionResponse("cannot identify image file"),
                 <<"guard", "validate", "decode">>, NoTensor, <<>>)
    ELSE LET img == Flatten(rq.body)
             t == ToTensor(Resize(img, IMG_SIZE))
         IN IF InferenceRaises(t, inferOK)
            THEN Outcome(ExceptionResponse("inference error"),
                         <<"guard", "validate", "decode", "infer">>, t, <<>>)
            ELSE FormatResult(out, img, t)

----------------------------------------------------------------------------
\* The REST process

RestInit ==
    /\ artifact \in Artifacts
    /\ pc = "boot"
    /\ entry = "none"
    /\ model = None
    /\ nextId = 1
    /\ compiled = {}
    /\ deserCount = 0
    /\ attemptCount = 0
    /\ compileCount = 0
    /\ loadReturns = <<>>
    /\ loadTrace = <<>>
    /\ req = NoReq
    /\ resp = NoResp
    /\ steps = <<>>
    /\ tensor = NoTensor
    /\ predictions = <<>>

\* One call of load_model_once and its bookkeeping.
ApplyLoad(r) ==
    /\ nextId' = nextId + r.deser
    /\ compiled' = compiled \cup r.done
    /\ deserCount' = deserCount + r.deser
    /\ attemptCount' = attemptCount + r.attempts
    /\ compileCount' = compileCount + r.compiles
    /\ loadReturns' = Append(loadReturns, r.ret)
    /\ loadTrace' = loadTrace \o r.trace

\* python app.py (app.py 256-271): `model = load_model_once()`, exit(1) when
\* that is None, else app.run.
StartMain ==
    /\ pc = "boot"
    /\ LET r == LoadModelOnce(model, artifact, nextId) IN
       /\ ApplyLoad(r)
       /\ model' = r.ret
       /\ pc' = IF r.ret = None THEN "exited" ELSE "serving"
    /\ entry' = "main"
    /\ UNCHANGED <<dvars, xvars>>
    /\ UNCHANGED <<artifact, req, resp, steps, tensor, predictions>>

\* wsgi.py 10-11: `from app import app as application`; the module body of
\* app.py runs (model = None) and the __main__ block does not.
StartWsgi ==
    /\ pc = "boot"
    /\ pc' = "serving"
    /\ entry' = "wsgi"
    /\ model' = None
    /\ UNCHANGED <<dvars, xvars>>
    /\ UNCHANGED <<artifact, nextId, compiled, deserCount, attemptCount,
                   compileCount, loadReturns, loadTrace, req, resp, steps, tensor,
                   predictions>>

\* A client sends a request to the serving process.
Receive ==
    /\ pc = "serving"
    /\ req = NoReq \/ resp # NoResp
    /\ \E r \in Requests : req' = r
    /\ resp' = NoResp
    /\ steps' = <<>>
    /\ tensor' = NoTensor
    /\ predictions' = <<>>
    /\ UNCHANGED <<dvars, xvars>>
    /\ UNCHANGED <<artifact, pc, entry, model, nextId, compiled, deserCount,
                   attemptCount, compileCount, loadReturns, loadTrace>>

\* POST /api/predict.
Predict ==
    /\ pc = "serving"
    /\ req.route = "predict"
    /\ resp = NoResp
    /\ \E out \in Outputs(artifact.outLen), inferOK \in BOOLEAN :
         LET o == PredictHandler(model, req, out, inferOK) IN
         /\ resp' = o.resp
         /\ steps' = o.steps
         /\ tensor' = o.tensor
         /\ predictions' = o.predictions
    /\ UNCHANGED <<dvars, xvars>>
    /\ UNCHANGED <<artifact, pc, entry, model, nextId, compiled, deserCount,
                   attemptCount, compileCount, loadReturns, loadTrace, req>>

\* GET /api/health (app.py 123-130).
HealthCheck ==
    /\ pc = "serving"
    /\ req.route = "health"
    /\ resp = NoResp
    /\ resp' = [NoResp EXCEPT !.status = 200, !.model_loaded = (model # None)]
    /\ UNCHANGED <<dvars, xvars>>
    /\ UNCHANGED <<artifact, pc, entry, model, nextId, compiled, deserCount,
                   attemptCount, compileCount, loadReturns, loadTrace, req, steps, tensor,
                   predictions>>

\* A caller invoking load_model_once again and again.
CallLoadModelOnce ==
    /\ pc = "boot"
    /\ Len(loadReturns) < MaxCalls
    /\ LET r == LoadModelOnce(model, artifact, nextId) IN
       /\ ApplyLoad(r)
       /\ model' = r.model
    /\ UNCHANGED <<dvars, xvars>>
    /\ UNCHANGED <<artifact, pc, entry, req, resp, steps, tensor, predictions>>

----------------------------------------------------------------------------
\* The dashboard (app_streamlit.py)

NoCache == [set |-> FALSE, model |-> None, trace |-> <<>>]

\* load_model (app_streamlit.py 127-180): existence check, one
\* load_model(compile=False) call, compile; (model, None) or (None, error).
\* st.cache_resource keeps whatever it returned.
DashLoadModel(art) ==
    IF ~art.exists THEN [set |-> TRUE, model |-> None, trace |-> <<>>]
    ELSE IF art.plainOK /\ art.compileOK
    THEN [set |-> TRUE, model |-> 1, trace |-> <<"default">>]
    ELSE [set |-> TRUE, model |-> None, trace |-> <<"default">>]

\* Files the uploader can hold: nothing, bytes PIL cannot open, or an image.
NoUpload == [Corrupt EXCEPT !.format = "absent"]
DashImages ==
    {im \in Images : /\ im.w = 64
                     /\ im.h = 600
                     /\ im.format = "PNG"
                     /\ im.mode \in {"RGB", "RGBA", "L"}}
Uploads == DashImages \cup {Corrupt}

\* datetime.now().strftime('%H:%M:%S') at the moments analyses are made.
Times == {"10:00:00", "10:00:07"}

NoResult == [label |-> "", confidence |-> 0, probabilities |-> <<>>, time |-> ""]

\* st.session_state: analysis_count is set by the sidebar (292-293), the
\* other attributes by the analyze branch (366-376).
NoSession == [has_count |-> FALSE, analysis_count |-> 0, has_pm |-> FALSE,
              prediction_made |-> FALSE, predicted_class |-> "",
              confidence |-> 0, probabilities |-> <<>>, analysis_time |-> ""]

NoScreen == [page |-> "none", error |-> "", result |-> NoResult, shown |-> FALSE]

\* predict_image (app_streamlit.py 183-214): the image is resized as it is,
\* no mode conversion; any exception becomes the error string (never empty
\* for the exceptions raised here).
PredictImage(img, out, inferOK) ==
    LET t == ToTensor(Resize(img, IMG_SIZE))
        bad(e, p) == [label |-> "", confidence |-> 0, probabilities |-> <<>>,
                      error |-> e, tensor |-> t, predictions |-> p]
    IN IF InferenceRaises(t, inferOK) THEN bad("inference error", <<>>)
       ELSE LET idx == ArgMax(out) IN
            IF idx > NumClasses THEN bad("list index out of range", out)
            ELSE IF Len(out) < NumClasses THEN bad("index out of bounds", out)
            ELSE [label |-> CLASS_NAMES[idx], confidence |-> Percent(out[idx]),
                  probabilities |-> [i \in 1..NumClasses |-> Percent(out[i])],
                  error |-> "", tensor |-> t, predictions |-> out]

StoreAnalysis_Counting(s, r, now) ==
    IF r.error # ""
    THEN [s EXCEPT !.has_pm = TRUE, !.prediction_made = FALSE,
                   !.analysis_count = s.analysis_count + 1]
    ELSE [s EXCEPT !.has_pm = TRUE, !.prediction_made = TRUE,
                   !.predicted_class = r.label, !.confidence = r.confidence,
                   !.probabilities = r.probabilities,
                   !.analysis_count = s.analysis_count + 1,
                   !.analysis_time = now]

\* app_streamlit.py 366-376: what the analyze branch does to the session.
StoreAnalysis(s, r, now) ==
    IF r.error # ""
    THEN [s EXCEPT !.has_pm = TRUE, !.prediction_made = FALSE]
    ELSE [s EXCEPT !.has_pm = TRUE, !.prediction_made = TRUE,
                   !.predicted_class = r.label, !.confidence = r.confidence,
                   !.probabilities = r.probabilities,
                   !.analysis_count = s.analysis_count + 1,
                   !.analysis_time = now]

\* app_streamlit.py 394-432: the results column shows the stored result when
\* prediction_made is set and true, the placeholder otherwise.
Results(s) ==
    IF s.has_pm /\ s.prediction_made
    THEN [label |-> s.predicted_class, confidence |-> s.confidence,
          probabilities |-> s.probabilities, time |-> s.analysis_time]
    ELSE NoResult

ResultsShown(s) == s.has_pm /\ s.prediction_made

\* One run of main() (app_streamlit.py 218-606) with file `up` in the
\* uploader, `analyze` telling whether the button was clicked, and `now` the
\* time of the run.
DashMain(c, s, up, analyze, art, out, inferOK, now) ==
    LET c1 == IF c.set THEN c ELSE DashLoadModel(art) IN
    IF c1.model = None
    THEN [cache |-> c1, ss |-> s, tensor |-> NoTensor, predictions |-> <<>>,
          screen |-> [NoScreen EXCEPT !.page = "load_error"]]
    ELSE LET s1 == IF s.has_count THEN s
                   ELSE [s EXCEPT !.has_count = TRUE, !.analysis_count = 0]
         IN
         IF up = NoUpload
         THEN [cache |-> c1, ss |-> s1, tensor |-> NoTensor, predictions |-> <<>>,
               screen |-> [page |-> "app", error |-> "", result |-> Results(s1),
                           shown |-> ResultsShown(s1)]]
         ELSE IF ~up.ok
         THEN [cache |-> c1, ss |-> s1, tensor |-> NoTensor, predictions |-> <<>>,
               screen |-> [NoScreen EXCEPT !.page = "exception"]]
         ELSE IF ~analyze
         THEN [cache |-> c1, ss |-> s1, tensor |-> NoTensor, predictions |-> <<>>,
               screen |-> [page |-> "app", error |-> "", result |-> Results(s1),
                           shown |-> ResultsShown(s1)]]
         ELSE LET r == PredictImage(up, out, inferOK)
                  s2 == StoreAnalysis(s1, r, now)
              IN [cache |-> c1, ss |-> s2, tensor |-> r.tensor,
                  predictions |-> r.predictions,
                  screen |-> [page |-> "app", error |-> r.error,
                              result |-> Results(s2), shown |-> ResultsShown(s2)]]

\* The first call of the dashboard's load_model; st.cache_resource answers
\* every later call from the cache.
CallLoadModel ==
    /\ ~cache.set
    /\ cache' = DashLoadModel(artifact)
    /\ UNCHANGED <<ss, upload, screen, dtensor, dpredictions, rvars, xvars>>

DashInit ==
    /\ cache = NoCache
    /\ ss = NoSession
    /\ upload = NoUpload
    /\ screen = NoScreen
    /\ dtensor = NoTensor
    /\ dpredictions = <<>>

ApplyRun(r) ==
    /\ cache' = r.cache
    /\ ss' = r.ss
    /\ screen' = r.screen
    /\ dtensor' = r.tensor
    /\ dpredictions' = r.predictions

\* The user puts a file in the uploader (or replaces it): the script reruns.
DashUpload ==
    /\ \E up \in Uploads :
         /\ upload' = up
         /\ ApplyRun(DashMain(cache, ss, up, FALSE, artifact, <<>>, TRUE, ""))
    /\ UNCHANGED <<rvars, xvars>>

\* The user removes the file: the script reruns without one.
DashClear ==
    /\ upload # NoUpload
    /\ upload' = NoUpload
    /\ ApplyRun(DashMain(cache, ss, NoUpload, FALSE, artifact, <<>>, TRUE, ""))
    /\ UNCHANGED <<rvars, xvars>>

\* The user clicks "Start AI Analysis", which the last run rendered.
DashAnalyze ==
    /\ screen.page = "app"
    /\ upload # NoUpload
    /\ ss.analysis_count < MaxAnalyses
    /\ \E now \in Times :
         \/ \E out \in Outputs(artifact.outLen) :
               ApplyRun(DashMain(cache, ss, upload, TRUE, artifact, out, TRUE, now))
         \/ ApplyRun(DashMain(cache, ss, upload, TRUE, artifact, <<>>, FALSE, now))
    /\ UNCHANGED <<upload, rvars, xvars>>

\* One output vector taken through the formatting code of both front-ends:
\* predict() of a loaded REST process and an analyze run of a dashboard
\* session, on the same image.
Classify ==
    /\ resp = NoResp
    /\ screen = NoScreen
    /\ \E out \in Outputs(artifact.outLen), img \in DashImages :
         LET rq == [route |-> "predict", hasFile |-> TRUE,
                    filename |-> "scan.png", body |-> img]
             o == PredictHandler(1, rq, out, TRUE)
             r == DashMain([set |-> TRUE, model |-> 1, trace |-> <<"default">>],
                           NoSession, img, TRUE,
                           artifact, out, TRUE, "10:00:00")
         IN /\ req' = rq
            /\ resp' = o.resp
            /\ steps' = o.steps
            /\ tensor' = o.tensor
            /\ predictions' = o.predictions
            /\ upload' = img
            /\ ApplyRun(r)
    /\ UNCHANGED <<artifact, pc, entry, model, nextId, compiled, deserCount,
                   attemptCount, compileCount, loadReturns, loadTrace, xvars>>

\* load_model_once statement by statement, called by several threads at
\* once (app.py 62-114).  The function takes no lock; every statement reads
\* and writes the one global `model`.

Threads == 1..NumThreads

ThreadInit ==
    /\ tpc = [t \in Threads |-> "check"]
    /\ tret = [t \in Threads |-> None]

\* `return x` of thread t.
Returns(t, x) ==
    /\ tret' = [tret EXCEPT ![t] = x]
    /\ tpc' = [tpc EXCEPT ![t] = "done"]
    /\ loadReturns' = Append(loadReturns, x)

Goes(t, where) ==
    /\ tpc' = [tpc EXCEPT ![t] = where]
    /\ UNCHANGED <<tret, loadReturns>>

\* A load_model call that returned: line 88 or 92 binds the global.
Deserialized ==
    /\ model' = nextId
    /\ nextId' = nextId + 1
    /\ deserCount' = deserCount + 1

ThreadFrame ==
    UNCHANGED <<artifact, pc, entry, req, resp, steps, tensor, predictions,
                dvars, qvars>>

\* Lines 66-67.
TCheck(t) ==
    /\ tpc[t] = "check"
    /\ IF AlreadyLoaded(model) THEN Returns(t, model) ELSE Goes(t, "exists")
    /\ UNCHANGED <<model, nextId, compiled, deserCount, attemptCount,
                   compileCount, loadTrace>>
    /\ ThreadFrame

\* Lines 75-76; the FileNotFoundError ends in `return None` (111-114).
TExists(t) ==
    /\ tpc[t] = "exists"
    /\ IF artifact.exists THEN Goes(t, "first") ELSE Returns(t, None)
    /\ UNCHANGED <<model, nextId, compiled, deserCount, attemptCount,
                   compileCount, loadTrace>>
    /\ ThreadFrame

\* Line 88.
TFirst(t) ==
    /\ tpc[t] = "first"
    /\ attemptCount' = attemptCount + 1
    /\ loadTrace' = Append(loadTrace, "unrestricted")
    /\ IF artifact.safeOK
       THEN Deserialized /\ Goes(t, "compile")
       ELSE Goes(t, "fallback") /\ UNCHANGED <<model, nextId, deserCount>>
    /\ UNCHANGED <<compiled, compileCount>>
    /\ ThreadFrame

\* Lines 90-92; an exception here ends in `return None`.
TFallback(t) ==
    /\ tpc[t] = "fallback"
    /\ attemptCount' = attemptCount + 1
    /\ loadTrace' = Append(loadTrace, "default")
    /\ IF artifact.plainOK
       THEN Deserialized /\ Goes(t, "compile")
       ELSE Returns(t, None) /\ UNCHANGED <<model, nextId, deserCount>>
    /\ UNCHANGED <<compiled, compileCount>>
    /\ ThreadFrame

\* Lines 101-105: compile of whatever the global holds now.
TCompile(t) ==
    /\ tpc[t] = "compile"
    /\ compileCount' = compileCount + 1
    /\ IF artifact.compileOK
       THEN compiled' = compiled \cup {model} /\ Goes(t, "return")
       ELSE Returns(t, None) /\ UNCHANGED compiled
    /\ UNCHANGED <<model, nextId, deserCount, attemptCount, loadTrace>>
    /\ ThreadFrame

\* Line 109: `return model`, the global as it is now.
TReturn(t) ==
    /\ tpc[t] = "return"
    /\ Returns(t, model)
    /\ UNCHANGED <<model, nextId, compiled, deserCount, attemptCount,
                   compileCount, loadTrace>>
    /\ ThreadFrame

----------------------------------------------------------------------------
\* predict() statement group by statement group (app.py 133-226)

RequestInit ==
    /\ rstate = "Idle"
    /\ rtrail = <<>>
    /\ rimg = Corrupt
    /\ rbuilt = NoResp
    /\ inferCalls = 0

RequestFrame ==
    UNCHANGED <<artifact, pc, entry, model, nextId, compiled, deserCount,
                attemptCount, compileCount, loadReturns, loadTrace, steps,
                dvars, tvars>>

Moves(to) ==
    /\ rstate' = to
    /\ rtrail' = Append(rtrail, to)

\* app.py 221-226: the except branch ends the request with a 500.
OnException_Escapes(e) ==
    /\ Moves("Crashed")
    /\ resp' = NoResp

OnException(e) ==
    /\ Moves("Failed")
    /\ resp' = ExceptionResponse(e)

\* A client's POST /api/predict reaches the handler.
RArrive ==
    /\ pc = "serving"
    /\ rstate \in {"Idle", "Responded", "Failed"}
    /\ \E r \in PredictRequests : req' = r
    /\ rstate' = "Received"
    /\ rtrail' = <<"Received">>
    /\ resp' = NoResp
    /\ tensor' = NoTensor
    /\ predictions' = <<>>
    /\ rimg' = Corrupt
    /\ rbuilt' = NoResp
    /\ inferCalls' = 0
    /\ RequestFrame

\* Lines 138-157: the model check and the checks of the upload.
RValidate ==
    /\ rstate = "Received"
    /\ IF ModelUnloaded(model)
       THEN Moves("Failed") /\ resp' = Failure(500, "Model not loaded")
       ELSE IF FileMissing(req)
       THEN Moves("Failed") /\ resp' = Failure(400, "No file uploaded")
       ELSE IF NoFileSelected(req)
       THEN Moves("Failed") /\ resp' = Failure(400, "No file selected")
       ELSE Moves("Validated") /\ UNCHANGED resp
    /\ UNCHANGED <<req, tensor, predictions, rimg, rbuilt, inferCalls>>
    /\ RequestFrame

\* Lines 160-165: open the image, flatten RGBA.
RDecode ==
    /\ rstate = "Validated"
    /\ IF ~req.body.ok
       THEN OnException("cannot identify image file") /\ UNCHANGED rimg
       ELSE /\ Moves("Decoded")
            /\ rimg' = Flatten(req.body)
            /\ UNCHANGED resp
    /\ UNCHANGED <<req, tensor, predictions, rbuilt, inferCalls>>
    /\ RequestFrame

\* Lines 168-184: resize, build the tensor, model.predict.
RInfer ==
    /\ rstate = "Decoded"
    /\ inferCalls' = inferCalls + 1
    /\ tensor' = ToTensor(Resize(rimg, IMG_SIZE))
    /\ \E out \in Outputs(artifact.outLen), inferOK \in BOOLEAN :
         IF InferenceRaises(tensor', inferOK)
         THEN OnException("inference error") /\ UNCHANGED predictions
         ELSE Moves("Inferred") /\ predictions' = out /\ UNCHANGED resp
    /\ UNCHANGED <<req, rimg, rbuilt>>
    /\ RequestFrame

\* Lines 187-215: label, confidence, distribution and the response dict.
RFormat ==
    /\ rstate = "Inferred"
    /\ LET o == FormatResult(predictions, rimg, tensor) IN
       IF o.resp.success
       THEN Moves("Formatted") /\ rbuilt' = o.resp /\ UNCHANGED resp
       ELSE OnException(o.resp.error) /\ UNCHANGED rbuilt
    /\ UNCHANGED <<req, tensor, predictions, rimg, inferCalls>>
    /\ RequestFrame

\* Line 219: `return jsonify(response)`.
RRespond ==
    /\ rstate = "Formatted"
    /\ Moves("Responded")
    /\ resp' = rbuilt
    /\ UNCHANGED <<req, tensor, predictions, rimg, rbuilt, inferCalls>>
    /\ RequestFrame

----------------------------------------------------------------------------
\* Specifications

Init == RestInit /\ DashInit /\ ThreadInit /\ RequestInit

\* The REST service.
Next == StartMain \/ StartWsgi \/ Receive \/ Predict \/ HealthCheck

Spec == Init /\ [][Next]_vars

\* The loaders: load_model_once called repeatedly, and the dashboard's
\* load_model.
NextLoad == CallLoadModelOnce \/ CallLoadModel

SpecLoad == Init /\ [][NextLoad]_vars

\* A dashboard session.
NextDash == DashUpload \/ DashClear \/ DashAnalyze

SpecDash == Init /\ [][NextDash]_vars

\* The formatter of both front-ends on the same vectors.
NextFormat == Classify

SpecFormat == Init /\ [][NextFormat]_vars

\* load_model_once called by several threads at once.
NextThreads ==
    \E t \in Threads :
        TCheck(t) \/ TExists(t) \/ TFirst(t) \/ TFallback(t) \/ TCompile(t)
        \/ TReturn(t)

SpecThreads == Init /\ [][NextThreads]_vars

\* The REST service with predict() taken step by step.
NextRequest ==
    StartMain \/ StartWsgi \/ RArrive \/ RValidate \/ RDecode \/ RInfer
    \/ RFormat \/ RRespond

SpecRequest == Init /\ [][NextRequest]_vars

----------------------------------------------------------------------------
\* Claims

Handled == req.route = "predict" /\ resp # NoResp

\* C1: however the REST application is started, it never accepts or serves
\* a request while the model handle is unloaded.
C1_StartupFatal ==
    (pc = "serving" \/ resp # NoResp) => model # None

\* C2: N calls of load_model_once in sequence all return the same instance,
\* and the deserialization and the compile step are performed only once.
C2_IdempotentLoad ==
    /\ \A i, j \in 1..Len(loadReturns) : loadReturns[i] = loadReturns[j]
    /\ deserCount <= 1
    /\ compileCount <= 1

\* C3: while the model handle is unloaded, every POST /api/predict request,
\* whatever its upload, is answered 500 with success false and error
\* 'Model not loaded', and neither decoding nor inference is attempted.
C3_UnloadedGuard ==
    (Handled /\ model = None) =>
        /\ resp.status = 500
        /\ ~resp.success
        /\ resp.error = "Model not loaded"
        /\ \A i \in 1..Len(steps) : steps[i] \notin {"decode", "infer"}
        /\ tensor = NoTensor
        /\ predictions = <<>>

C3_Witness ==
    /\ Handled
    /\ model = None
    /\ req.hasFile
    /\ req.filename # ""
    /\ req.body.ok
    /\ resp.status = 500

C5_ShapeInvariant ==
    (Handled /\ tensor # NoTensor) =>
        /\ tensor.shape = <<1, 150, 150, 3>>
        /\ 0 <= tensor.lo
        /\ tensor.hi <= tensor.div

\* C6: an RGBA upload is preprocessed to a 3-channel tensor before
\* inference in the REST handler and in the dashboard's analyze action, and
\* neither raises a channel-mismatch error.
C6_AlphaFlattening ==
    /\ (Handled /\ req.body.mode = "RGBA" /\ tensor # NoTensor) =>
           Len(tensor.shape) = 4 /\ tensor.shape[4] = 3
    /\ (upload.mode = "RGBA" /\ dtensor # NoTensor) =>
           /\ Len(dtensor.shape) = 4
           /\ dtensor.shape[4] = 3
           /\ dpredictions # <<>>

\* The class table of the claim: index 0, 1, 2 of the vector.
C7_Label(i) ==
    CASE i = 1 -> "Adenocarcinoma"
      [] i = 2 -> "Normal"
      [] i = 3 -> "Squamous Cell Carcinoma"

C7_LowestMax(v, i) ==
    /\ \A j \in 1..Len(v) : v[j] <= v[i]
    /\ \A j \in 1..(i - 1) : v[j] < v[i]

\* C7: for every output vector of length 3 the predicted label is the class
\* of the lowest index holding the maximum, and the confidence is the value
\* at that index as a percentage (rounded to two decimals by the REST
\* handler), in both front-ends.
C7_Argmax ==
    /\ Len(predictions) = 3 =>
          /\ resp.success
          /\ \E i \in 1..3 :
                /\ C7_LowestMax(predictions, i)
                /\ resp.predicted_class = C7_Label(i)
                /\ resp.confidence = Round2(Percent(predictions[i]))
    /\ Len(dpredictions) = 3 =>
          /\ ss.prediction_made
          /\ \E i \in 1..3 :
                /\ C7_LowestMax(dpredictions, i)
                /\ ss.predicted_class = C7_Label(i)
                /\ ss.confidence = Percent(dpredictions[i])

C7_Witness ==
    /\ predictions = <<50000, 50000, 0>>
    /\ resp.predicted_class = "Adenocarcinoma"
    /\ resp.confidence = 5000
    /\ dpredictions = <<50000, 50000, 0>>
    /\ ss.predicted_class = "Adenocarcinoma"

\* What the claim counts as a caller-input problem.
C8_CallerProblem == ~req.hasFile \/ req.filename = "" \/ ~req.body.ok

\* C8 as stated: every failed predict request gets success false and an
\* error string, with 400 for a caller-input problem (missing file field,
\* empty file, corrupt or unsupported bytes) and 500 for a server problem
\* (model not loaded, inference failure).
C8_Original ==
    (Handled /\ resp.status # 200) =>
        /\ ~resp.success
        /\ resp.error # ""
        /\ resp.status = IF model = None THEN 500
                         ELSE IF C8_CallerProblem THEN 400 ELSE 500

\* C8 amended: every failed predict request gets success false and an error
\* string; the status is 400 exactly when the model is loaded and the file
\* field is missing or its filename is empty, and 500 in every other case
\* (model not loaded, bytes that do not decode, inference or formatting
\* failure).
C8_ErrorStatus ==
    (Handled /\ resp.status # 200) =>
        /\ ~resp.success
        /\ resp.error # ""
        /\ resp.status \in {400, 500}
        /\ resp.status = 400 <=>
              (model # None /\ (~req.hasFile \/ req.filename = ""))

C8_Witness ==
    /\ Handled
    /\ model # None
    /\ req.hasFile
    /\ req.filename # ""
    /\ ~req.body.ok
    /\ resp.status = 500
    /\ ~resp.success

\* C9: whenever the model's output vector is not of length 3, the request
\* fails with an error response; no success response is built from a
\* truncated or padded vector.
C9_TaxonomyMismatch ==
    (Handled /\ predictions # <<>> /\ Len(predictions) # 3) =>
        ~resp.success /\ resp.status # 200

\* An analyze run that failed: it is the only run that shows an inline error.
C10_Failed == screen'.error # ""

C10_Kept ==
    /\ ss'.predicted_class = ss.predicted_class
    /\ ss'.confidence = ss.confidence
    /\ ss'.probabilities = ss.probabilities
    /\ ss'.analysis_time = ss.analysis_time
    /\ ss'.analysis_count = ss.analysis_count

\* C10 as stated: with a successful result on screen, a failing analyze
\* action shows an inline error, leaves the stored result stored and still
\* displayed, and leaves the analysis counter unchanged.
C10_Original ==
    [][(ResultsShown(ss) /\ C10_Failed) =>
          /\ C10_Kept
          /\ screen'.shown
          /\ screen'.result = Results(ss)]_vars

\* C10 amended: with a successful result on screen, a failing analyze
\* action shows an inline error and leaves the stored label, confidence,
\* distribution, analysis time and the analysis counter unchanged, but it
\* clears prediction_made, so the result is no longer displayed.
C10_FailedAnalysis ==
    [][(ResultsShown(ss) /\ C10_Failed) =>
          /\ C10_Kept
          /\ ~ss'.prediction_made
          /\ ~screen'.shown
          /\ screen'.result = NoResult]_vars

C10_Witness ==
    /\ screen.error # ""
    /\ ss.analysis_count = 1
    /\ ss.predicted_class # ""
    /\ ~ss.prediction_made
    /\ ~screen.shown

\* C11: in every successful predict response, original_width and
\* original_height are the width and height of the uploaded image, for any
\* dimensions and pixel mode, not the resized 150x150.
C11_RoundTripDimensions ==
    (Handled /\ resp.success) =>
        /\ resp.original_width = req.body.w
        /\ resp.original_height = req.body.h

C11_Witness ==
    /\ Handled
    /\ resp.success
    /\ req.body.mode = "RGBA"
    /\ req.body.w = 800
    /\ req.body.h = 600
    /\ resp.original_width = 800
    /\ resp.original_height = 600

\* C16: in every successful predict response, image_info.format is the
\* format the uploaded image declares (PNG, JPEG), for every pixel mode,
\* RGBA images flattened to RGB included; it is 'Unknown' only when the
\* upload declares no format.
C16_FormatEcho ==
    (Handled /\ resp.success) =>
        resp.format = (IF req.body.format # "None" THEN req.body.format
                       ELSE "Unknown")

C15_FailedLoadStaysUnloaded ==
    /\ (loadReturns # <<>> /\ loadReturns[Len(loadReturns)] = None) =>
          model = None
    /\ \A i \in 1..Len(loadReturns) :
          loadReturns[i] # None => loadReturns[i] \in compiled

\* The states of a request that runs to its response, in order.
Chain == <<"Received", "Validated", "Decoded", "Inferred", "Formatted",
           "Responded">>

\* C12: every POST /api/predict request passes through validation, decode,
\* inference and formatting in that order, without skipping or repeating a
\* step; model.predict is invoked at most once and only after validation and
\* decode succeeded; the request ends in exactly one terminal outcome, a
\* success response or a structured failure response; an exception in any
\* step ends in the failure response and never leaves the handler.
C12_RequestStateMachine ==
    /\ rstate = "Idle" <=> rtrail = <<>>
    /\ rtrail # <<>> =>
          /\ rtrail[Len(rtrail)] = rstate
          /\ \/ \E n \in 1..Len(Chain) : rtrail = SubSeq(Chain, 1, n)
             \/ \E n \in 1..(Len(Chain) - 1) :
                   rtrail = Append(SubSeq(Chain, 1, n), "Failed")
    /\ inferCalls <= 1
    /\ inferCalls = 1 <=>
          (Len(rtrail) >= 4 \/ rtrail = <<"Received", "Validated", "Decoded",
                                          "Failed">>)
    /\ inferCalls = 1 =>
          /\ ~ModelUnloaded(model)
          /\ req.hasFile
          /\ req.filename # ""
          /\ req.body.ok
          /\ rimg.ok
    /\ rstate = "Responded" => resp.success /\ resp.status = 200
    /\ rstate = "Failed" =>
          ~resp.success /\ resp.error # "" /\ resp.status \in {400, 500}
    /\ rstate \notin {"Responded", "Failed"} => resp = NoResp

C12_Witness ==
    /\ rtrail = Chain
    /\ inferCalls = 1
    /\ resp.success

\* C14: when two or more threads call load_model_once concurrently while
\* the model is unloaded, the artifact is deserialized exactly once, all
\* callers obtain the same instance, and the global model is never rebound
\* to a different instance after it first became non-None (every rebinding
\* is a deserialization, so a second one is a rebinding).
C14_ThreadSafeSingleLoad ==
    /\ deserCount <= 1
    /\ \A t, u \in Threads :
          (tpc[t] = "done" /\ tpc[u] = "done" /\ tret[t] # None
           /\ tret[u] # None) => tret[t] = tret[u]

====
